---- MODULE Spec2Model ----
(***************************************************************************)
(* TitleElementMerger (sec_parser/processing_steps/title_element_merger.py) *)
(* One batch processing step: _process_elements scans the element list,    *)
(* groups adjacent TitleElements that _can_merge_with_batch accepts, and   *)
(* replaces every group of two or more by the element _merge builds.       *)
(*                                                                         *)
(* Python lists are 0-based, the sequences here are 1-based; an index i of *)
(* the model is index i-1 of the code.  Texts are sequences of one-letter  *)
(* strings, so that strip(), split(), len() and isalpha() are computed.    *)
(***************************************************************************)
EXTENDS Integers, Sequences, FiniteSets, TLC

VARIABLES elements, input, result, batch_indices, merge_calls, error, passes, pc

vars == <<elements, input, result, batch_indices, merge_calls, error, passes, pc>>

\* ---------------------------------------------------------------- bounds
MaxLen == 3
MaxPasses == 2

\* ------------------------------------------------------------- characters
Letters == {"a", "b", "c", "d", "e", "f"}
Whitespace == {" "}

isalpha(c) == c \in Letters

RECURSIVE lstrip(_)
lstrip(s) ==
    IF s # <<>> /\ Head(s) \in Whitespace THEN lstrip(Tail(s)) ELSE s

RECURSIVE rstrip(_)
rstrip(s) ==
    IF s # <<>> /\ s[Len(s)] \in Whitespace
    THEN rstrip(SubSeq(s, 1, Len(s) - 1))
    ELSE s

strip(s) == rstrip(lstrip(s))

\* len(s.split()): the number of maximal runs of non-whitespace characters
split_count(s) ==
    Cardinality({i \in 1..Len(s) :
                    /\ s[i] \notin Whitespace
                    /\ (i = 1 \/ s[i - 1] \in Whitespace)})

\* ---------------------------------------------------------------- values
None == [kind |-> "None"]
NoParent == "None"
NoError == "none"
EmptyListError == "ValueError: Cannot merge empty list of elements"
MergedTagName == "sec-parser-merged-title"

isinstance_TitleElement(e) == e.kind = "TitleElement"

\* the text of a tag: its own string, or its children's texts in order
RECURSIVE tag_text(_)
tag_text(tag) ==
    IF tag.children = <<>> THEN tag.string
    ELSE LET F[k \in 0..Len(tag.children)] ==
                 IF k = 0 THEN <<>> ELSE F[k - 1] \o tag_text(tag.children[k])
         IN F[Len(tag.children)]

element_text(e) == tag_text(e.html_tag)

\* HtmlTag.wrap_tags_in_new_parent: a new node, outside the document tree
wrap_tags_in_new_parent(name, tags) ==
    [name |-> name, parent |-> NoParent, children |-> tags, string |-> <<>>]

\* ProcessingLog.add_item: appends one entry, never removes one
add_item(log, message, origin) ==
    Append(log, [message |-> message, log_origin |-> origin])

\* TitleElement(html_tag, processing_log=..., level=..., log_origin=...)
TitleElement(id, html_tag, processing_log, level) ==
    [kind |-> "TitleElement", id |-> id, html_tag |-> html_tag,
     level |-> level, processing_log |-> processing_log]

\* ------------------------------------------------- _can_merge_with_batch
min_single_word_length == 5

\* variant: the length threshold is inclusive
is_substantial_ge(text) ==
    split_count(text) > 1 \/ Len(text) >= min_single_word_length

is_substantial(text) ==
    split_count(text) > 1 \/ Len(text) > min_single_word_length

\* variant: the guard does not look at the tag names
separate_titles_any_tag(batch_first, element) ==
    /\ batch_first.html_tag.parent = element.html_tag.parent
    /\ LET batch_text == strip(element_text(batch_first))
           elem_text == strip(element_text(element))
       IN /\ batch_text # <<>>
          /\ elem_text # <<>>
          /\ is_substantial(batch_text)
          /\ is_substantial(elem_text)
          /\ isalpha(batch_text[Len(batch_text)])
          /\ isalpha(elem_text[1])

\* lines 115-139: TRUE when the two div siblings are taken for separate titles
separate_titles(batch_first, element) ==
    /\ batch_first.html_tag.name = "div"
    /\ element.html_tag.name = "div"
    /\ batch_first.html_tag.parent = element.html_tag.parent
    /\ LET batch_text == strip(element_text(batch_first))
           elem_text == strip(element_text(element))
       IN /\ batch_text # <<>>
          /\ elem_text # <<>>
          /\ is_substantial(batch_text)
          /\ is_substantial(elem_text)
          /\ isalpha(batch_text[Len(batch_text)])
          /\ isalpha(elem_text[1])

\* variant: a missing parent is not tested for
can_merge_no_none_check(element, batch_elements) ==
    IF batch_elements = <<>> THEN TRUE
    ELSE IF \E k \in 1..Len(batch_elements) :
                ~isinstance_TitleElement(batch_elements[k]) THEN FALSE
    ELSE IF element.level # batch_elements[1].level THEN FALSE
    ELSE IF batch_elements[1].html_tag.parent # element.html_tag.parent THEN FALSE
    ELSE IF separate_titles(batch_elements[1], element) THEN FALSE
    ELSE TRUE

\* variant: the levels are not compared
can_merge_no_level_check(element, batch_elements) ==
    IF batch_elements = <<>> THEN TRUE
    ELSE IF \E k \in 1..Len(batch_elements) :
                ~isinstance_TitleElement(batch_elements[k]) THEN FALSE
    ELSE IF \/ batch_elements[1].html_tag.parent = NoParent
            \/ element.html_tag.parent = NoParent THEN FALSE
    ELSE IF batch_elements[1].html_tag.parent # element.html_tag.parent THEN FALSE
    ELSE IF separate_titles(batch_elements[1], element) THEN FALSE
    ELSE TRUE

\* variant: the two parents are not compared
can_merge_no_parent_compare(element, batch_elements) ==
    IF batch_elements = <<>> THEN TRUE
    ELSE IF \E k \in 1..Len(batch_elements) :
                ~isinstance_TitleElement(batch_elements[k]) THEN FALSE
    ELSE IF element.level # batch_elements[1].level THEN FALSE
    ELSE IF \/ batch_elements[1].html_tag.parent = NoParent
            \/ element.html_tag.parent = NoParent THEN FALSE
    ELSE IF separate_titles(batch_elements[1], element) THEN FALSE
    ELSE TRUE

can_merge_with_batch(element, batch_elements) ==
    IF batch_elements = <<>> THEN TRUE
    ELSE IF \E k \in 1..Len(batch_elements) :
                ~isinstance_TitleElement(batch_elements[k]) THEN FALSE
    ELSE IF element.level # batch_elements[1].level THEN FALSE
    ELSE IF \/ batch_elements[1].html_tag.parent = NoParent
            \/ element.html_tag.parent = NoParent THEN FALSE
    ELSE IF batch_elements[1].html_tag.parent # element.html_tag.parent THEN FALSE
    ELSE IF separate_titles(batch_elements[1], element) THEN FALSE
    ELSE TRUE

\* ----------------------------------------------------------------- _merge
merged_id(title_elements) ==
    <<0>> \o [k \in 1..Len(title_elements) |-> title_elements[k].id[1]]

\* variant: the log of the last member is kept instead of the first
merge_last_log(merge_elements) ==
    IF merge_elements = <<>> THEN [error |-> EmptyListError, value |-> None]
    ELSE IF Len(merge_elements) = 1
         THEN [error |-> NoError, value |-> merge_elements[1]]
    ELSE LET title_elements == merge_elements
             new_tag == wrap_tags_in_new_parent(MergedTagName,
                           [k \in 1..Len(title_elements) |->
                               title_elements[k].html_tag])
             merged_processing_log ==
                 add_item(title_elements[Len(title_elements)].processing_log,
                          [head |-> "Merged", count |-> Len(title_elements),
                           texts |-> [k \in 1..Len(title_elements) |->
                                         element_text(title_elements[k])]],
                          "TitleElementMerger")
         IN [error |-> NoError,
             value |-> TitleElement(merged_id(title_elements), new_tag,
                                    merged_processing_log,
                                    title_elements[1].level)]

merge(merge_elements) ==
    IF merge_elements = <<>> THEN [error |-> EmptyListError, value |-> None]
    ELSE IF Len(merge_elements) = 1
         THEN [error |-> NoError, value |-> merge_elements[1]]
    ELSE LET title_elements == merge_elements
             new_tag == wrap_tags_in_new_parent(MergedTagName,
                           [k \in 1..Len(title_elements) |->
                               title_elements[k].html_tag])
             merged_processing_log ==
                 add_item(title_elements[1].processing_log,
                          [head |-> "Merged", count |-> Len(title_elements),
                           texts |-> [k \in 1..Len(title_elements) |->
                                         element_text(title_elements[k])]],
                          "TitleElementMerger")
         IN [error |-> NoError,
             value |-> TitleElement(merged_id(title_elements), new_tag,
                                    merged_processing_log,
                                    title_elements[1].level)]

\* ------------------------------------------------------ _process_elements
\* variant: an element that is no title does not close the open batch
scan_step_no_break(elems, i, batches) ==
    LET last == batches[Len(batches)]
        element == elems[i]
        append_i(bs) == [bs EXCEPT ![Len(bs)] = Append(@, i)]
    IN IF isinstance_TitleElement(element)
       THEN IF /\ last # <<>>
               /\ can_merge_with_batch(element,
                      [k \in 1..Len(last) |-> elems[last[k]]])
            THEN append_i(batches)
            ELSE IF last # <<>>
                 THEN append_i(Append(batches, <<>>))
                 ELSE append_i(batches)
       ELSE batches

\* lines 48-61, one iteration of the grouping loop at index i
scan_step(elems, i, batches) ==
    LET last == batches[Len(batches)]
        element == elems[i]
        append_i(bs) == [bs EXCEPT ![Len(bs)] = Append(@, i)]
    IN IF isinstance_TitleElement(element)
       THEN IF /\ last # <<>>
               /\ can_merge_with_batch(element,
                      [k \in 1..Len(last) |-> elems[last[k]]])
            THEN append_i(batches)
            ELSE IF last # <<>>
                 THEN append_i(Append(batches, <<>>))
                 ELSE append_i(batches)
       ELSE IF last # <<>> THEN Append(batches, <<>>) ELSE batches

RECURSIVE scan(_, _, _)
scan(elems, i, batches) ==
    IF i > Len(elems) THEN batches
    ELSE scan(elems, i + 1, scan_step(elems, i, batches))

\* variant: the positions of the other members are not cleared
merge_step_keep_members(st, indices) ==
    IF Len(indices) <= 1 \/ st.error # NoError THEN st
    ELSE LET arg == [k \in 1..Len(indices) |-> st.result[indices[k]]]
             ret == merge(arg)
         IN [result |-> [st.result EXCEPT ![indices[1]] = ret.value],
             merge_calls |-> Append(st.merge_calls, arg),
             error |-> NoError]

\* variant: batches of one element are handed to merge as well
merge_step_single(st, indices) ==
    IF Len(indices) < 1 \/ st.error # NoError THEN st
    ELSE LET arg == [k \in 1..Len(indices) |-> st.result[indices[k]]]
             ret == merge(arg)
         IN [result |-> [i \in 1..Len(st.result) |->
                            IF i = indices[1] THEN ret.value
                            ELSE IF \E k \in 2..Len(indices) : indices[k] = i
                                 THEN None
                                 ELSE st.result[i]],
             merge_calls |-> Append(st.merge_calls, arg),
             error |-> NoError]

\* lines 64-74, one iteration of the merging loop for the batch `indices`
merge_step(st, indices) ==
    IF Len(indices) <= 1 \/ st.error # NoError THEN st
    ELSE LET present == SelectSeq(indices, LAMBDA i : st.result[i] # None)
             arg == [k \in 1..Len(present) |-> st.result[present[k]]]
             ret == merge(arg)
         IN IF ret.error # NoError
            THEN [st EXCEPT !.error = ret.error,
                            !.merge_calls = Append(@, arg)]
            ELSE [result |-> [i \in 1..Len(st.result) |->
                                 IF i = indices[1] THEN ret.value
                                 ELSE IF \E k \in 2..Len(indices) : indices[k] = i
                                      THEN None
                                      ELSE st.result[i]],
                  merge_calls |-> Append(st.merge_calls, arg),
                  error |-> NoError]

RECURSIVE merge_batches(_, _, _)
merge_batches(st, batches, b) ==
    IF b > Len(batches) THEN st
    ELSE merge_batches(merge_step(st, batches[b]), batches, b + 1)

process_elements(elems) ==
    LET batches == scan(elems, 1, << <<>> >>)
        st == merge_batches([result |-> elems, merge_calls |-> <<>>,
                             error |-> NoError], batches, 1)
    IN [result |-> IF st.error # NoError THEN <<>>
                   ELSE SelectSeq(st.result, LAMBDA e : e # None),
        batch_indices |-> batches,
        merge_calls |-> st.merge_calls,
        error |-> st.error]

\* ------------------------------------------------------------- the inputs
\* texts, written as the characters of the string
T_ab == <<"a", "b">>
T_a_b == <<"a", " ", "b">>
T_a_b_dot == <<"a", " ", "b", ".">>
T_dot_a_b == <<".", "a", " ", "b">>
T_abcdef == <<"a", "b", "c", "d", "e", "f">>
T_abcde == <<"a", "b", "c", "d", "e">>
T_sp_a_b_sp == <<" ", "a", " ", "b", " ">>
T_blank == <<" ">>

Texts == {T_ab, T_a_b, T_a_b_dot, T_dot_a_b, T_abcdef, T_abcde, T_sp_a_b_sp,
          T_blank}
Parents == {NoParent, "p1", "p2"}
Levels == {0, 1}
TagNames == {"div", "span"}

NonTitleProto ==
    [kind |-> "TextElement", name |-> "p", parent |-> "p1", level |-> 0,
     text |-> T_ab]

\* titles that differ in level and parent (no text the guard reacts to)
ShapeProtos ==
    {[kind |-> "TitleElement", name |-> "span", parent |-> p, level |-> l,
      text |-> T_ab] : p \in Parents, l \in Levels} \cup {NonTitleProto}

\* sibling titles of one level that differ in tag name and text, and an
\* element that is no title
GuardProtos ==
    {[kind |-> "TitleElement", name |-> "div", parent |-> "p1", level |-> 0,
      text |-> t] : t \in Texts \ {T_ab}}
    \cup {[kind |-> "TitleElement", name |-> "span", parent |-> "p1",
           level |-> 0, text |-> t] : t \in {T_ab, T_a_b}}
    \cup {NonTitleProto}

\* the log an input element arrives with: one entry at odd positions
InputLog(i) ==
    IF i % 2 = 1
    THEN <<[message |-> [head |-> "Test message", count |-> i, texts |-> <<>>],
            log_origin |-> "TestOrigin"]>>
    ELSE <<>>

MakeElement(i, proto) ==
    LET tag == [name |-> proto.name, parent |-> proto.parent,
                children |-> <<>>, string |-> proto.text]
    IN IF proto.kind = "TitleElement"
       THEN TitleElement(<<i>>, tag, InputLog(i), proto.level)
       ELSE [kind |-> proto.kind, id |-> <<i>>, html_tag |-> tag,
             level |-> proto.level, processing_log |-> InputLog(i)]

InputsOver(protos) ==
    UNION {{[i \in 1..n |-> MakeElement(i, f[i])] : f \in [1..n -> protos]} :
              n \in 0..MaxLen}

Inputs == InputsOver(ShapeProtos) \cup InputsOver(GuardProtos)

\* ------------------------------------------------------------ the machine
Init ==
    /\ elements \in Inputs
    /\ input = <<>>
    /\ result = <<>>
    /\ batch_indices = << <<>> >>
    /\ merge_calls = <<>>
    /\ error = NoError
    /\ passes = 0
    /\ pc = "ready"

\* step.process(...): the first call on the input, the next on its own output
Process ==
    /\ pc = "ready"
    /\ passes < MaxPasses
    /\ LET in == IF passes = 0 THEN elements ELSE result
           r == process_elements(in)
       IN /\ input' = in
          /\ result' = r.result
          /\ batch_indices' = r.batch_indices
          /\ merge_calls' = r.merge_calls
          /\ error' = r.error
          /\ pc' = IF r.error = NoError THEN "ready" ELSE "raised"
    /\ passes' = passes + 1
    /\ UNCHANGED elements

\* step._merge(...) called directly on a leading slice of titles
CallMerge ==
    /\ pc = "ready"
    /\ passes = 0
    /\ \E k \in 0..Len(elements) :
          /\ \A j \in 1..k : isinstance_TitleElement(elements[j])
          /\ LET arg == SubSeq(elements, 1, k)
                 ret == merge(arg)
             IN /\ input' = arg
                /\ merge_calls' = <<arg>>
                /\ error' = ret.error
                /\ result' = IF ret.error = NoError THEN <<ret.value>> ELSE <<>>
                /\ pc' = IF ret.error = NoError THEN "merged" ELSE "raised"
    /\ UNCHANGED <<elements, batch_indices, passes>>

Next == Process \/ CallMerge

Spec == Init /\ [][Next]_vars

TypeOK ==
    /\ pc \in {"ready", "merged", "raised"}
    /\ passes \in 0..MaxPasses
    /\ Len(result) <= Len(input)

\* ------------------------------------------------- vocabulary of the claims
\* process has returned: input is what it was given, result what it returned
Processed == pc = "ready" /\ passes >= 1

IsTitle(e) == e.kind = "TitleElement"

SameLevel(f, e) == f.level = e.level

SameParent(f, e) ==
    /\ f.html_tag.parent # NoParent
    /\ e.html_tag.parent # NoParent
    /\ f.html_tag.parent = e.html_tag.parent

Trimmed(t) ==
    LET inner == {i \in 1..Len(t) : t[i] # " "}
    IN IF inner = {} THEN <<>>
       ELSE SubSeq(t, CHOOSE i \in inner : \A j \in inner : i <= j,
                      CHOOSE i \in inner : \A j \in inner : i >= j)

Substantial(t) ==
    \/ \E i \in 1..Len(t) : t[i] = " "
    \/ Len(t) > 5

\* the separate-titles guard, for run head f and candidate e
Blocked(f, e) ==
    LET bt == Trimmed(f.html_tag.string)
        et == Trimmed(e.html_tag.string)
    IN /\ f.html_tag.name = "div" /\ e.html_tag.name = "div"
       /\ bt # <<>> /\ et # <<>>
       /\ Substantial(bt) /\ Substantial(et)
       /\ bt[Len(bt)] \in Letters
       /\ et[1] \in Letters

Mergeable(f, e) ==
    IsTitle(f) /\ IsTitle(e) /\ SameLevel(f, e) /\ SameParent(f, e) /\ ~Blocked(f, e)

\* an element of result that the last call built (not one of its inputs)
IsNew(r) == \A i \in 1..Len(input) : input[i].id # r.id

\* the runs the last call built, as index lists
Runs == {batch_indices[b] : b \in 1..Len(batch_indices)} \ {<<>>}

LongRuns == {run \in Runs : Len(run) >= 2}

Deleted == UNION {{run[k] : k \in 2..Len(run)} : run \in LongRuns}

Kept == (1..Len(input)) \ Deleted

\* the position in result of the kept input position i
OutPos(i) == Cardinality({j \in Kept : j <= i})

IsRunHead(i) == \E run \in LongRuns : run[1] = i

\* r is the merged element of the input positions a..b
MergedFrom(r, a, b) ==
    /\ IsTitle(r)
    /\ r.html_tag.name = MergedTagName
    /\ r.id = <<0>> \o [k \in 1..(b - a + 1) |-> input[a + k - 1].id[1]]
    /\ r.html_tag.children = [k \in 1..(b - a + 1) |-> input[a + k - 1].html_tag]

\* C1: a second pass over the output of a pass returns it unchanged
Thm_C1_Idempotent ==
    (pc = "ready" /\ passes >= 2) => result = input

Wit_C1_Idempotent ==
    /\ pc = "ready" /\ passes = 2
    /\ Len(result) < Len(elements)
    /\ Len(result) >= 2
    /\ \E k \in 1..Len(result) : result[k].html_tag.name = MergedTagName

\* C2 as stated: the output is no longer than the input, and as long exactly
\* when no two adjacent titles have the same level and the same parent
Orig_C2_Length ==
    Processed =>
        /\ Len(result) <= Len(input)
        /\ (Len(result) = Len(input)) <=>
              ~\E i \in 1..(Len(input) - 1) :
                  /\ IsTitle(input[i]) /\ IsTitle(input[i + 1])
                  /\ SameLevel(input[i], input[i + 1])
                  /\ SameParent(input[i], input[i + 1])

\* C2 amended: the output is no longer than the input, and as long exactly
\* when no two adjacent titles are mergeable (same level, same non-null
\* parent, not held apart by the separate-titles guard)
Thm_C2_Length ==
    Processed =>
        /\ Len(result) <= Len(input)
        /\ (Len(result) = Len(input)) <=>
              ~\E i \in 1..(Len(input) - 1) : Mergeable(input[i], input[i + 1])

Wit_C2_Length ==
    /\ Processed
    /\ Len(result) = Len(input)
    /\ \E i \in 1..(Len(input) - 1) :
          /\ IsTitle(input[i]) /\ IsTitle(input[i + 1])
          /\ SameLevel(input[i], input[i + 1])
          /\ SameParent(input[i], input[i + 1])

\* C3: the output is the input with every run of two or more replaced by one
\* new merged element and its other positions removed; every other element
\* is passed through as it was (same object, same log), in input order
Thm_C3_OrderPassThrough ==
    Processed =>
        /\ Len(result) = Cardinality(Kept)
        /\ \A i \in Kept :
              IF IsRunHead(i)
              THEN /\ IsNew(result[OutPos(i)])
                   /\ result[OutPos(i)].html_tag.name = MergedTagName
              ELSE result[OutPos(i)] = input[i]
        /\ \A run \in LongRuns : \A k \in 1..(Len(run) - 1) : run[k + 1] = run[k] + 1

Wit_C3_OrderPassThrough ==
    /\ Processed /\ passes = 1
    /\ Len(input) = 3
    /\ Len(result) = 2
    /\ result[1] = input[1]
    /\ IsTitle(input[1])
    /\ IsNew(result[2])

\* C4: titles of different levels are never merged; a merged element is built
\* from titles of one level and carries that level
Thm_C4_LevelIsolation ==
    Processed =>
        /\ \A call \in {merge_calls[c] : c \in 1..Len(merge_calls)} :
              \A j, k \in 1..Len(call) : call[j].level = call[k].level
        /\ \A k \in 1..Len(result) :
              IsNew(result[k]) =>
                \E a, b \in 1..Len(input) :
                    /\ a < b
                    /\ MergedFrom(result[k], a, b)
                    /\ \A j \in a..b : input[j].level = result[k].level

Wit_C4_LevelIsolation ==
    /\ Processed /\ passes = 1
    /\ Len(input) = 3 /\ Len(result) = 2
    /\ \A i \in 1..3 : IsTitle(input[i])
    /\ SameParent(input[1], input[2]) /\ SameParent(input[2], input[3])
    /\ input[1].level = input[2].level
    /\ input[3].level # input[2].level
    /\ IsNew(result[1])

\* C5: a merged element is built from consecutive input positions that all
\* hold titles; a non-title element is in no run and ends the open run
Thm_C5_NonTitleBoundary ==
    Processed =>
        /\ \A run \in Runs : \A k \in 1..Len(run) : IsTitle(input[run[k]])
        /\ \A k \in 1..Len(result) :
              IsNew(result[k]) =>
                \E a, b \in 1..Len(input) :
                    /\ a < b
                    /\ MergedFrom(result[k], a, b)
                    /\ \A j \in a..b : IsTitle(input[j])
        /\ \A i \in 1..Len(input) :
              ~IsTitle(input[i]) => \E k \in 1..Len(result) : result[k] = input[i]

Wit_C5_NonTitleBoundary ==
    /\ Processed /\ passes = 1
    /\ Len(input) = 3 /\ Len(result) = 3
    /\ IsTitle(input[1]) /\ ~IsTitle(input[2]) /\ IsTitle(input[3])
    /\ SameLevel(input[1], input[3]) /\ SameParent(input[1], input[3])

\* the concatenation of the members' texts, in order
MemberTexts(members) ==
    LET F[k \in 0..Len(members)] ==
            IF k = 0 THEN <<>> ELSE F[k - 1] \o members[k].html_tag.string
    IN F[Len(members)]

\* r is what merging `members` (two or more titles) must give
IsMergeOf(r, members) ==
    LET n == Len(members)
        first == members[1]
        log == r.processing_log
    IN /\ IsTitle(r)
       /\ r.html_tag.name = MergedTagName
       /\ r.html_tag.children = [k \in 1..n |-> members[k].html_tag]
       /\ element_text(r) = MemberTexts(members)
       /\ r.level = first.level
       /\ Len(log) = Len(first.processing_log) + 1
       /\ SubSeq(log, 1, Len(log) - 1) = first.processing_log
       /\ log[Len(log)].message.head = "Merged"
       /\ log[Len(log)].message.count = n
       /\ log[Len(log)].log_origin = "TitleElementMerger"
       /\ r.id # first.id

OpenRunHead(i) ==
    LET run == CHOOSE r \in Runs : \E k \in 1..Len(r) : r[k] = i - 1
    IN run[1]

InSameRun(i, j) ==
    \E run \in Runs : \E a, b \in 1..Len(run) : run[a] = i /\ run[b] = j

\* C7: a div title tested against a run headed by a div title of the same
\* level and parent starts a new run when the guard's conditions hold; in
\* every other same-level, same-parent case it joins the run
Thm_C7_SeparateTitlesGuard ==
    Processed =>
        \A i \in 2..Len(input) :
            (/\ IsTitle(input[i]) /\ IsTitle(input[i - 1])
             /\ SameLevel(input[OpenRunHead(i)], input[i])
             /\ SameParent(input[OpenRunHead(i)], input[i]))
            => IF Blocked(input[OpenRunHead(i)], input[i])
               THEN /\ \E run \in Runs : run[1] = i
                    /\ (Len(input) = 2 => result = input)
               ELSE InSameRun(OpenRunHead(i), i)

Wit_C7_SeparateTitlesGuard ==
    /\ Processed /\ passes = 1
    /\ Len(input) = 2
    /\ IsTitle(input[1]) /\ IsTitle(input[2])
    /\ SameLevel(input[1], input[2]) /\ SameParent(input[1], input[2])
    /\ Blocked(input[1], input[2])
    /\ result = input

\* C8: a title joins a run only when it and the run's head both have a
\* parent and it is the same one; otherwise the titles stay unmerged and
\* process returns without error
Thm_C8_MissingParent ==
    Processed =>
        /\ error = NoError
        /\ \A run \in Runs : \A k \in 2..Len(run) :
              SameParent(input[run[1]], input[run[k]])
        /\ \A i \in 2..Len(input) :
              (/\ IsTitle(input[i]) /\ IsTitle(input[i - 1])
               /\ ~SameParent(input[OpenRunHead(i)], input[i]))
              => \E run \in Runs : run[1] = i
        /\ (/\ Len(input) = 2
            /\ IsTitle(input[1]) /\ IsTitle(input[2])
            /\ ~SameParent(input[1], input[2])) => result = input

Wit_C8_MissingParent ==
    /\ Processed /\ passes = 1
    /\ Len(input) = 2
    /\ IsTitle(input[1]) /\ IsTitle(input[2])
    /\ SameLevel(input[1], input[2])
    /\ input[1].html_tag.parent = NoParent
    /\ input[2].html_tag.parent = NoParent
    /\ result = input
    /\ error = NoError

\* C9: merge called with no element raises the ValueError and returns
\* nothing; process never raises and calls merge on two or more elements only
Thm_C9_EmptyListMerge ==
    /\ (pc = "raised") <=> (passes = 0 /\ merge_calls = << <<>> >>)
    /\ pc = "raised" => error = EmptyListError /\ result = <<>>
    /\ pc # "raised" => error = NoError
    /\ passes >= 1 =>
          /\ pc = "ready"
          /\ \A c \in 1..Len(merge_calls) : Len(merge_calls[c]) >= 2
          /\ Len(merge_calls) = Cardinality(LongRuns)

Wit_C9_EmptyListMerge ==
    /\ pc = "raised"
    /\ error = EmptyListError
    /\ input = <<>>
    /\ elements # <<>>

\* C10 as stated: every run is a block of titles that are pairwise mergeable,
\* and no neighbouring title could be added to it
Orig_C10_PairwiseMaximal ==
    Processed =>
        \A run \in Runs :
            /\ \A j, k \in 1..Len(run) :
                  j < k => Mergeable(input[run[j]], input[run[k]])
            /\ LET next == run[Len(run)] + 1
               IN (next <= Len(input) /\ IsTitle(input[next]))
                  => \E k \in 1..Len(run) : ~Mergeable(input[run[k]], input[next])

====
